---- MODULE Spec2Model ----
(***************************************************************************)
(* Session lifecycle of services/orchest-api/app/app/core/sessions/_core.py *)
(* as a state machine: launch (namespace provisioning, manifest            *)
(* compilation, submission, readiness polling), cleanup_resources/shutdown, *)
(* restart_session_service and the launch_noninteractive_session context   *)
(* manager, running against a cluster control plane whose answers are       *)
(* drawn nondeterministically from the answers its state allows.            *)
(***************************************************************************)
EXTENDS Integers, Sequences, FiniteSets, TLC

(***************************************************************************)
(* Bounds of the model.                                                    *)
(***************************************************************************)
\* Largest number of user services a session config declares.
MaxServices == 2
\* Cap on the sleeps of one (ceiling-less) readiness loop.
MaxReadyPolls == 1
\* Largest desired replica count of the workload that is restarted.
MaxReplicas == 2

(***************************************************************************)
(* Program constants.                                                      *)
(***************************************************************************)
\* Variant: one pass fewer.
NamespacePollCeiling_Short == 120 - 1
\* for _ in range(120) in _create_session_k8s_namespace
NamespacePollCeiling == 120
\* Variant: one iteration fewer.
CleanupPollCeiling_Short == 1000 - 1
\* for _ in range(1000) in cleanup_resources
CleanupPollCeiling == 1000
\* {"spec": {"replicas": 0}} in restart_session_service
ScaleDownReplicas == 0

SessionType == {"interactive", "noninteractive"}

\* What a control-plane call answers: success, or a client.ApiException
\* with e.status 404, 409 or another status.
ApiOk == "ok"
ApiNotFound == "ApiException(404)"
ApiConflict == "ApiException(409)"
ApiError == "ApiException(500)"

ServiceNames == {"svc-a", "svc-b"}
Scopes == {{"interactive"}, {"noninteractive"}, {"interactive", "noninteractive"}}
\* Images of user services: an environment image the config maps and one it
\* does not ("myimage", an external image, needs no mapping).
Images == {"environment@e1", "environment@e2"}
env_uuid_docker_id_mappings == {"e1"}

ServiceConfig == [name : ServiceNames, scope : Scopes, image : Images]

\* session_config["services"]: a mapping in declared (insertion) order,
\* so its keys are distinct.
ServicesOfLen(n) ==
    {s \in [1..n -> ServiceConfig] :
        \A i, j \in 1..n : i # j => s[i].name # s[j].name}

SessionServices == UNION {ServicesOfLen(n) : n \in 0..MaxServices}

(***************************************************************************)
(* Manifest lists built by launch (lines 147-192).                         *)
(***************************************************************************)
\* session_config.get("services", {}) is truthy
HasServices(services) == Len(services) > 0

\* Variant: session-sidecar submitted whether or not services are declared.
OrchestDeploymentManifests_AlwaysSidecar(session_type, services) ==
    <<"memory-server", "session-sidecar">>
    \o (IF session_type = "interactive"
        THEN <<"jupyter-eg", "jupyter-server">> ELSE <<>>)

\* orchest_session_service_k8s_deployment_manifests
OrchestDeploymentManifests(session_type, services) ==
    <<"memory-server">>
    \o (IF HasServices(services) THEN <<"session-sidecar">> ELSE <<>>)
    \o (IF session_type = "interactive"
        THEN <<"jupyter-eg", "jupyter-server">> ELSE <<>>)

\* Variant: a service registered for session-sidecar too.
OrchestServiceManifests_WithSidecar(session_type) ==
    <<"session-sidecar">>
    \o (IF session_type = "interactive"
        THEN <<"jupyter-eg", "jupyter-server">> ELSE <<>>)

\* orchest_session_service_k8s_service_manifests
OrchestServiceManifests(session_type) ==
    IF session_type = "interactive"
    THEN <<"jupyter-eg", "jupyter-server">> ELSE <<>>

\* Variant: the scope test dropped.
InScope_Any(session_type, service_config) == TRUE

\* if session_type.value not in service_config["scope"]: continue
InScope(session_type, service_config) == session_type \in service_config.scope

RECURSIVE ScopedServices(_, _)
ScopedServices(session_type, services) ==
    IF services = <<>> THEN <<>>
    ELSE LET rest == ScopedServices(session_type, Tail(services))
         IN  IF InScope(session_type, Head(services))
             THEN <<Head(services)>> \o rest
             ELSE rest

NamesOf(services) == [i \in 1..Len(services) |-> services[i].name]

\* user_session_service_k8s_deployment_manifests
UserDeploymentManifests(session_type, services) ==
    NamesOf(ScopedServices(session_type, services))

\* user_session_service_k8s_service_manifests
UserServiceManifests(session_type, services) ==
    NamesOf(ScopedServices(session_type, services))

\* An environment@<id> image needs an entry in env_uuid_docker_id_mappings.
ImageResolves(image) ==
    \/ image = "myimage"
    \/ image = "environment@e1" /\ "e1" \in env_uuid_docker_id_mappings
    \/ image = "environment@e2" /\ "e2" \in env_uuid_docker_id_mappings

\* Every manifest of the session compiles.
ManifestsCompile(session_type, services) ==
    \A i \in 1..Len(services) :
        InScope(session_type, services[i]) => ImageResolves(services[i].image)

Call(op, name) == [op |-> op, name |-> name]

CallsOf(op, names) == [i \in 1..Len(names) |-> Call(op, names[i])]

\* Variant: all deployments, then all services.
SubmissionPlan_TwoWaves(session_type, services) ==
    CallsOf("create_deployment", OrchestDeploymentManifests(session_type, services))
    \o CallsOf("create_deployment", UserDeploymentManifests(session_type, services))
    \o CallsOf("create_service", OrchestServiceManifests(session_type))
    \o CallsOf("create_service", UserServiceManifests(session_type, services))

\* The create calls of lines 194-225, in the order launch issues them.
SubmissionPlan(session_type, services) ==
    CallsOf("create_deployment", OrchestDeploymentManifests(session_type, services))
    \o CallsOf("create_service", OrchestServiceManifests(session_type))
    \o CallsOf("create_deployment", UserDeploymentManifests(session_type, services))
    \o CallsOf("create_service", UserServiceManifests(session_type, services))

\* The deployments the readiness loop walks (lines 228-231).
ReadinessOrder(session_type, services) ==
    UserDeploymentManifests(session_type, services)
    \o OrchestDeploymentManifests(session_type, services)

(***************************************************************************)
(* The control plane, as far as this module depends on it.                 *)
(***************************************************************************)
NamespaceStates == {"absent", "creating", "Active", "Terminating"}

\* k8s_core_api.create_namespace(manifest)
CreateNamespaceAnswers(namespace) ==
    IF namespace = "absent" THEN {ApiOk, ApiError} ELSE {ApiConflict, ApiError}

\* k8s_core_api.read_namespace_status(name): an answer and, when the read
\* succeeds, .status.phase. A namespace just created may not be visible yet.
ReadNamespaceAnswers(namespace) ==
    {[status |-> ApiError, phase |-> "none"]} \cup
    CASE namespace = "absent" ->
            {[status |-> ApiNotFound, phase |-> "none"]}
      [] namespace = "creating" ->
            {[status |-> ApiNotFound, phase |-> "none"],
             [status |-> ApiOk, phase |-> "Pending"]}
      [] namespace = "Active" ->
            {[status |-> ApiOk, phase |-> "Active"]}
      [] namespace = "Terminating" ->
            {[status |-> ApiOk, phase |-> "Terminating"]}

\* k8s_core_api.delete_namespace(ns)
DeleteNamespaceAnswers(namespace) ==
    IF namespace = "absent" THEN {ApiNotFound, ApiError} ELSE {ApiOk, ApiError}

\* create_namespaced_deployment / create_namespaced_service,
\* read_namespaced_deployment_status, patch_namespaced_deployment_scale
WorkloadCallAnswers == {ApiOk, ApiError}

\* A deployment as the control plane reports it:
\* spec.replicas and status.available_replicas.
Deployment(replicas, available) == [replicas |-> replicas, available |-> available]

\* No deployment exists.
NoDeployments == [n \in {} |-> Deployment(0, 0)]

\* Variant: a deployment counts as ready as soon as its status can be read.
NotReady_Never(deployment) == FALSE

\* deployment.status.available_replicas != deployment.spec.replicas
NotReady(deployment) == deployment.available # deployment.replicas

\* spec.replicas of the deployment manifests launch submits.
ManifestReplicas == 1

VARIABLES
    namespace,          \* control plane: the state of the session's namespace
    deployments,        \* control plane: name -> Deployment, those that exist
    services,           \* control plane: names of the registered services
    session_type,       \* launch argument
    session_services,   \* session_config["services"], from launch's first read
    lpc,                \* launch: where it is
    ns_reads,           \* _create_session_k8s_namespace: status reads made
    ns_sleeps,          \* _create_session_k8s_namespace: sleeps of 0.5 made
    ns_answer,          \* _create_session_k8s_namespace: the last read's answer
    submit_idx,         \* launch: next call of the submission plan
    ready_idx,          \* launch: deployment the readiness loop is at
    ready_sleeps,       \* launch: sleeps of 1 made by the readiness loop
    ready_seen,         \* launch: deployments a status read has shown ready
    calls,              \* launch: calls issued since provisioning, in order
    launch_outcome,     \* "running", "returned" or "raised"
    launch_result,      \* the value launch returned
    launch_error,       \* the exception launch raised
    abort_seen,         \* should_abort() answered True
    cpc,                \* cleanup_resources: where it is
    wait_for_completion,\* cleanup_resources argument
    delete_requests,    \* cleanup_resources: delete_namespace calls issued
    delete_answer,      \* cleanup_resources: what delete_namespace answered
    read_answer,        \* cleanup_resources: what the last status read answered
    cleanup_reads_ok,   \* cleanup_resources: status reads that did not raise
    cleanup_reads,      \* cleanup_resources: status reads made
    cleanup_sleeps,     \* cleanup_resources: sleeps of 1 made
    cleanup_outcome,    \* "running", "returned" or "raised"
    cleanup_error,      \* the exception cleanup_resources raised
    rpc,                \* restart_session_service, per caller: where it is
    old_replicas,       \* restart_session_service, per caller: old_replicas
    wait_for_readiness, \* restart_session_service, per caller: argument
    rcalls,             \* restart_session_service, per caller: calls issued
    replicas_before,    \* spec.replicas of the workload before any restart
    hpc,                \* launch_noninteractive_session: where it is
    body_outcome,       \* how the with-body ended
    shutdown_calls,     \* launch_noninteractive_session: shutdown() calls
    recording           \* whether the readiness loop's calls are recorded

platform_vars == <<namespace, deployments, services>>
config_vars == <<session_type, session_services>>
launch_vars == <<lpc, ns_reads, ns_sleeps, ns_answer, submit_idx, ready_idx,
                 ready_sleeps, ready_seen, calls, launch_outcome,
                 launch_result, launch_error, abort_seen>>
cleanup_vars == <<cpc, wait_for_completion, delete_requests, delete_answer,
                  read_answer, cleanup_reads_ok, cleanup_reads,
                  cleanup_sleeps, cleanup_outcome, cleanup_error>>
restart_vars == <<rpc, old_replicas, wait_for_readiness, rcalls,
                  replicas_before>>
helper_vars == <<hpc, body_outcome, shutdown_calls>>
\* The record of the readiness loop (its entries in calls, ready_sleeps)
\* grows with every pass; a run that is to go round the loop without limit
\* is observed without it.
observer_vars == <<recording>>
vars == <<platform_vars, config_vars, launch_vars, cleanup_vars, restart_vars,
          helper_vars, observer_vars>>

RestartCallers == {1, 2}

(***************************************************************************)
(* launch                                                                  *)
(***************************************************************************)
\* Variant: a value of its own for the interrupted launch.
ReturnOnAbort_Distinct == "Aborted"
\* The value of a bare `return` (line 236).
ReturnOnAbort == "None"
\* The value of falling off the end of the function (after line 239).
ReturnOnReady == "None"

LaunchRaises(error) ==
    /\ lpc' = "done"
    /\ launch_outcome' = "raised"
    /\ launch_error' = error
    /\ UNCHANGED <<launch_result, abort_seen>>

LaunchReturns(value, aborted) ==
    /\ lpc' = "done"
    /\ launch_outcome' = "returned"
    /\ launch_result' = value
    /\ abort_seen' = aborted
    /\ UNCHANGED launch_error

LaunchGoes(to) ==
    /\ lpc' = to
    /\ UNCHANGED <<launch_outcome, launch_result, launch_error, abort_seen>>

\* No status read made yet.
NoAnswer == [status |-> "none", phase |-> "none"]

\* k8s_core_api.create_namespace(manifest), line 45
launch_create_namespace ==
    /\ lpc = "create_namespace"
    /\ \E answer \in CreateNamespaceAnswers(namespace) :
        IF answer = ApiOk
        THEN /\ namespace' = "creating"
             /\ LaunchGoes("read_namespace_status")
        ELSE /\ LaunchRaises(answer)
             /\ UNCHANGED namespace
    /\ UNCHANGED <<deployments, services, config_vars, ns_reads, ns_sleeps,
                   ns_answer, submit_idx, ready_idx, ready_sleeps, calls,
                   ready_seen, cleanup_vars, restart_vars, helper_vars,
                   observer_vars>>

\* Variant: any read that does not raise ends the loop, whatever the phase.
NamespaceReadVerdict_AnyPhase(answer) ==
    IF answer.status = ApiOk THEN "break"
    ELSE IF answer.status # ApiNotFound THEN "raise" ELSE "sleep"

\* What the try block of lines 50-56 makes of a status read: break out of
\* the loop, go on to the sleep, or re-raise.
NamespaceReadVerdict(answer) ==
    IF answer.status = ApiOk
    THEN IF answer.phase = "Active" THEN "break" ELSE "sleep"
    ELSE IF answer.status # ApiNotFound THEN "raise" ELSE "sleep"

\* One pass of the try block of the polling loop, lines 50-56.
launch_read_namespace_status ==
    /\ lpc = "read_namespace_status"
    /\ ns_reads' = ns_reads + 1
    /\ \E answer \in ReadNamespaceAnswers(namespace) :
        /\ ns_answer' = answer
        /\ CASE NamespaceReadVerdict(answer) = "break" -> LaunchGoes("compile")
             [] NamespaceReadVerdict(answer) = "sleep" ->
                    LaunchGoes("namespace_sleep")
             [] NamespaceReadVerdict(answer) = "raise" ->
                    LaunchRaises(answer.status)
    /\ UNCHANGED <<platform_vars, config_vars, ns_sleeps, submit_idx, ready_idx,
                   ready_sleeps, calls, ready_seen, cleanup_vars, restart_vars, helper_vars,
                   observer_vars>>

\* time.sleep(0.5) in milliseconds, line 57, and the time the loop has slept.
NamespacePollDelayMs == 500
ProvisioningSleptMs == ns_sleeps * NamespacePollDelayMs

\* time.sleep(0.5), then the next iteration or the for-else, lines 57-59.
launch_namespace_sleep ==
    /\ lpc = "namespace_sleep"
    /\ ns_sleeps' = ns_sleeps + 1
    /\ IF ns_reads < NamespacePollCeiling
       THEN LaunchGoes("read_namespace_status")
       ELSE LaunchRaises("Could not create namespace")
    /\ UNCHANGED <<platform_vars, config_vars, ns_reads, ns_answer, submit_idx,
                   ready_idx, ready_sleeps, calls, ready_seen, cleanup_vars, restart_vars,
                   helper_vars,
                   observer_vars>>

\* Variant: the manifests are not built before the submissions start.
launch_compile_Unchecked ==
    /\ lpc = "compile"
    /\ \E config_services \in SessionServices :
        /\ session_services' = config_services
        /\ LaunchGoes("submit")
    /\ ns_reads' = 0
    /\ ns_sleeps' = 0
    /\ UNCHANGED <<platform_vars, session_type, ns_answer, submit_idx,
                   ready_idx, ready_sleeps, calls, ready_seen, cleanup_vars, restart_vars,
                   helper_vars,
                   observer_vars>>

\* Building the manifest lists, lines 147-192, where launch first reads
\* session_config["services"]. The loop state of
\* _create_session_k8s_namespace is gone once that function has returned.
launch_compile ==
    /\ lpc = "compile"
    /\ \E config_services \in SessionServices :
        /\ session_services' = config_services
        /\ IF ManifestsCompile(session_type, config_services)
           THEN LaunchGoes("submit")
           ELSE LaunchRaises("UnresolvedEnvironment")
    /\ ns_reads' = 0
    /\ ns_sleeps' = 0
    /\ UNCHANGED <<platform_vars, session_type, ns_answer, submit_idx,
                   ready_idx, ready_sleeps, calls, ready_seen, cleanup_vars, restart_vars,
                   helper_vars,
                   observer_vars>>

\* Variant: should_abort() is sampled between the submissions too.
AfterSubmit_Sampling(idx) ==
    IF idx < Len(SubmissionPlan(session_type, session_services))
    THEN "should_abort" ELSE "read_deployment_status"

\* After the last create call comes the first readiness read.
AfterSubmit(idx) ==
    IF idx < Len(SubmissionPlan(session_type, session_services))
    THEN "submit" ELSE "read_deployment_status"

\* Variant: a failed submission rolls back what was submitted before it.
launch_submit_RollingBack ==
    /\ lpc = "submit"
    /\ LET call == SubmissionPlan(session_type, session_services)[submit_idx]
       IN  /\ calls' = Append(calls, call)
           /\ \E answer \in WorkloadCallAnswers :
               IF answer = ApiOk
               THEN /\ IF call.op = "create_deployment"
                       THEN /\ deployments' =
                                [n \in DOMAIN deployments \cup {call.name} |->
                                    IF n = call.name
                                    THEN Deployment(ManifestReplicas, 0)
                                    ELSE deployments[n]]
                            /\ UNCHANGED services
                       ELSE /\ services' = services \cup {call.name}
                            /\ UNCHANGED deployments
                    /\ submit_idx' = submit_idx + 1
                    /\ LaunchGoes(AfterSubmit(submit_idx))
               ELSE /\ LaunchRaises(answer)
                    /\ deployments' = NoDeployments
                    /\ services' = {}
                    /\ UNCHANGED submit_idx
    /\ UNCHANGED <<namespace, config_vars, ns_reads, ns_sleeps, ns_answer,
                   ready_idx, ready_sleeps, ready_seen, cleanup_vars, restart_vars,
                   helper_vars,
                   observer_vars>>

\* One create_namespaced_deployment / create_namespaced_service call,
\* lines 196-225.
launch_submit ==
    /\ lpc = "submit"
    /\ LET call == SubmissionPlan(session_type, session_services)[submit_idx]
       IN  /\ calls' = Append(calls, call)
           /\ \E answer \in WorkloadCallAnswers :
               IF answer = ApiOk
               THEN /\ IF call.op = "create_deployment"
                       THEN /\ deployments' =
                                [n \in DOMAIN deployments \cup {call.name} |->
                                    IF n = call.name
                                    THEN Deployment(ManifestReplicas, 0)
                                    ELSE deployments[n]]
                            /\ UNCHANGED services
                       ELSE /\ services' = services \cup {call.name}
                            /\ UNCHANGED deployments
                    /\ submit_idx' = submit_idx + 1
                    /\ LaunchGoes(AfterSubmit(submit_idx))
               ELSE /\ LaunchRaises(answer)
                    /\ UNCHANGED <<deployments, services, submit_idx>>
    /\ UNCHANGED <<namespace, config_vars, ns_reads, ns_sleeps, ns_answer,
                   ready_idx, ready_sleeps, ready_seen, cleanup_vars, restart_vars,
                   helper_vars,
                   observer_vars>>

\* The call log after a call of the readiness loop.
Recorded(call) == IF recording THEN Append(calls, call) ELSE calls

\* read_namespaced_deployment_status and the while test, lines 233-234, 239.
launch_read_deployment_status ==
    /\ lpc = "read_deployment_status"
    /\ LET order == ReadinessOrder(session_type, session_services)
           name == order[ready_idx]
       IN  /\ calls' = Recorded(Call("read_deployment_status", name))
           /\ \E answer \in WorkloadCallAnswers :
               IF answer = ApiOk /\ name \in DOMAIN deployments
               THEN /\ ready_seen' =
                        IF deployments[name].available
                                = deployments[name].replicas
                        THEN ready_seen \cup {name} ELSE ready_seen
                    /\ IF NotReady(deployments[name])
                       THEN /\ LaunchGoes("should_abort")
                            /\ UNCHANGED ready_idx
                       ELSE /\ ready_idx' = ready_idx + 1
                            /\ IF ready_idx < Len(order)
                               THEN LaunchGoes("read_deployment_status")
                               ELSE LaunchReturns(ReturnOnReady, FALSE)
               ELSE /\ LaunchRaises(ApiError)
                    /\ UNCHANGED <<ready_idx, ready_seen>>
    /\ UNCHANGED <<platform_vars, config_vars, ns_reads, ns_sleeps, ns_answer,
                   submit_idx, ready_sleeps, cleanup_vars, restart_vars,
                   helper_vars,
                   observer_vars>>

\* Variant: the answer of should_abort() ignored.
AfterShouldAbort_Ignored(abort) == "sleep"

\* Where launch goes on what should_abort() answered, lines 235-237.
AfterShouldAbort(abort) == IF abort THEN "done" ELSE "sleep"

\* if should_abort(): return, lines 235-236.
launch_should_abort ==
    /\ lpc = "should_abort"
    /\ calls' = Recorded(Call("should_abort", "-"))
    /\ \E abort \in BOOLEAN :
        /\ abort_seen' = abort
        /\ launch_result' = (IF abort THEN ReturnOnAbort ELSE launch_result)
        /\ lpc' = AfterShouldAbort(abort)
        /\ launch_outcome' =
                (IF AfterShouldAbort(abort) = "done" THEN "returned"
                 ELSE launch_outcome)
        /\ UNCHANGED launch_error
    /\ UNCHANGED <<platform_vars, config_vars, ns_reads, ns_sleeps, ns_answer,
                   submit_idx, ready_idx, ready_sleeps, ready_seen, cleanup_vars,
                   restart_vars, helper_vars,
                   observer_vars>>

\* time.sleep(1), line 238.
launch_sleep ==
    /\ lpc = "sleep"
    /\ recording => ready_sleeps < MaxReadyPolls
    /\ ready_sleeps' = (IF recording THEN ready_sleeps + 1 ELSE ready_sleeps)
    /\ calls' = Recorded(Call("sleep", "-"))
    /\ LaunchGoes("read_deployment_status")
    /\ UNCHANGED <<platform_vars, config_vars, ns_reads, ns_sleeps, ns_answer,
                   submit_idx, ready_idx, ready_seen, cleanup_vars, restart_vars,
                   helper_vars,
                   observer_vars>>

launch ==
    \/ launch_create_namespace
    \/ launch_read_namespace_status
    \/ launch_namespace_sleep
    \/ launch_compile
    \/ launch_submit
    \/ launch_read_deployment_status
    \/ launch_should_abort
    \/ launch_sleep

(***************************************************************************)
(* The control plane's own steps.                                          *)
(***************************************************************************)
\* The namespace created becomes visible with phase Active.
NamespaceBecomesActive ==
    /\ namespace = "creating"
    /\ namespace' = "Active"
    /\ UNCHANGED <<deployments, services, config_vars, launch_vars,
                   cleanup_vars, restart_vars, helper_vars,
                   observer_vars>>

\* A deployment's available replicas move one towards its spec.replicas.
ReplicasConverge ==
    /\ namespace \in {"creating", "Active"}
    /\ \E name \in DOMAIN deployments :
        /\ NotReady(deployments[name])
        /\ deployments' = [deployments EXCEPT ![name].available =
                IF @ < deployments[name].replicas THEN @ + 1 ELSE @ - 1]
    /\ UNCHANGED <<namespace, services, config_vars, launch_vars,
                   cleanup_vars, restart_vars, helper_vars,
                   observer_vars>>

\* The deletion of the namespace completes; everything in it goes with it.
NamespaceRemoved ==
    /\ namespace = "Terminating"
    /\ namespace' = "absent"
    /\ deployments' = NoDeployments
    /\ services' = {}
    /\ UNCHANGED <<config_vars, launch_vars, cleanup_vars, restart_vars,
                   helper_vars,
                   observer_vars>>

Platform == NamespaceBecomesActive \/ ReplicasConverge \/ NamespaceRemoved

(***************************************************************************)
(* cleanup_resources (shutdown is the same call)                           *)
(***************************************************************************)
CleanupRaises(error) ==
    /\ cpc' = "done"
    /\ cleanup_outcome' = "raised"
    /\ cleanup_error' = error

CleanupReturns ==
    /\ cpc' = "done"
    /\ cleanup_outcome' = "returned"
    /\ UNCHANGED cleanup_error

CleanupGoes(to) ==
    /\ cpc' = to
    /\ UNCHANGED <<cleanup_outcome, cleanup_error>>

\* Variant: the deletion is always waited for.
AfterDelete_AlwaysWaits(wait) == "read_namespace_status"

\* if not wait_for_completion: return, lines 256-257.
AfterDelete(wait) == IF ~wait THEN "done" ELSE "read_namespace_status"

\* k8s_core_api.delete_namespace(ns) and the wait_for_completion test,
\* lines 254-257.
cleanup_delete_namespace ==
    /\ cpc = "delete_namespace"
    /\ delete_requests' = delete_requests + 1
    /\ \E answer \in DeleteNamespaceAnswers(namespace) :
        /\ delete_answer' = answer
        /\ IF answer = ApiOk
           THEN /\ namespace' = "Terminating"
                /\ IF AfterDelete(wait_for_completion) = "done"
                   THEN CleanupReturns
                   ELSE CleanupGoes(AfterDelete(wait_for_completion))
           ELSE /\ CleanupRaises(answer)
                /\ UNCHANGED namespace
    /\ UNCHANGED <<deployments, services, config_vars, launch_vars,
                   wait_for_completion, read_answer, cleanup_reads_ok,
                   cleanup_reads, cleanup_sleeps, restart_vars, helper_vars,
                   observer_vars>>

\* What the try block of lines 260-265 makes of a status read: go on to
\* the sleep, break out of the loop, or re-raise.
CleanupReadVerdict(status) ==
    IF status = ApiOk THEN "sleep"
    ELSE IF status = ApiNotFound THEN "break" ELSE "raise"

\* One pass of the try block of the polling loop, lines 260-265.
cleanup_read_namespace_status ==
    /\ cpc = "read_namespace_status"
    /\ cleanup_reads' = cleanup_reads + 1
    /\ \E answer \in ReadNamespaceAnswers(namespace) :
        /\ read_answer' = answer.status
        /\ cleanup_reads_ok' =
                cleanup_reads_ok + (IF answer.status = ApiOk THEN 1 ELSE 0)
        /\ CASE CleanupReadVerdict(answer.status) = "sleep" ->
                    CleanupGoes("sleep")
             [] CleanupReadVerdict(answer.status) = "break" ->
                    CleanupReturns
             [] CleanupReadVerdict(answer.status) = "raise" ->
                    CleanupRaises(answer.status)
    /\ UNCHANGED <<platform_vars, config_vars, launch_vars,
                   wait_for_completion, delete_requests, delete_answer,
                   cleanup_sleeps, restart_vars, helper_vars,
                   observer_vars>>

\* time.sleep(1), then the next iteration or the for-else, lines 266-268.
cleanup_sleep ==
    /\ cpc = "sleep"
    /\ cleanup_sleeps' = cleanup_sleeps + 1
    /\ IF cleanup_reads < CleanupPollCeiling
       THEN CleanupGoes("read_namespace_status")
       ELSE CleanupRaises("SessionCleanupFailedError")
    /\ UNCHANGED <<platform_vars, config_vars, launch_vars,
                   wait_for_completion, delete_requests, delete_answer,
                   read_answer, cleanup_reads_ok, cleanup_reads,
                   restart_vars, helper_vars,
                   observer_vars>>

cleanup_resources ==
    \/ cleanup_delete_namespace
    \/ cleanup_read_namespace_status
    \/ cleanup_sleep

(***************************************************************************)
(* restart_session_service, one run per caller                             *)
(***************************************************************************)
RCall(op, replicas) == [op |-> op, replicas |-> replicas]

SleepsIn(log) == Cardinality({i \in 1..Len(log) : log[i].op = "sleep"})

\* Variant: the two scale updates swapped.
ScalePlan_Swapped(old) == <<old, ScaleDownReplicas>>

\* The replica counts of the two patch_namespaced_deployment_scale calls,
\* lines 311-316.
ScalePlan(old) == <<ScaleDownReplicas, old>>

RestartGoes(r, to) == rpc' = [rpc EXCEPT ![r] = to]

\* old_replicas = read_namespaced_deployment_status(...).spec.replicas
restart_read_replicas(r, name) ==
    /\ rpc[r] = "read_replicas"
    /\ \E answer \in WorkloadCallAnswers :
        IF answer = ApiOk
        THEN /\ old_replicas' =
                    [old_replicas EXCEPT ![r] = deployments[name].replicas]
             /\ rcalls' = [rcalls EXCEPT ![r] = Append(@,
                    RCall("read_deployment_status", deployments[name].replicas))]
             /\ RestartGoes(r, "scale_down")
        ELSE /\ RestartGoes(r, "raised")
             /\ UNCHANGED <<old_replicas, rcalls>>
    /\ UNCHANGED <<platform_vars, config_vars, launch_vars, cleanup_vars,
                   wait_for_readiness, replicas_before, helper_vars,
                   observer_vars>>

\* One patch_namespaced_deployment_scale call: nth is 1 (to zero) or 2
\* (back to old_replicas).
restart_patch_scale(r, name, nth) ==
    /\ rpc[r] = (IF nth = 1 THEN "scale_down" ELSE "scale_up")
    /\ LET replicas == ScalePlan(old_replicas[r])[nth]
       IN  /\ rcalls' = [rcalls EXCEPT ![r] =
                    Append(@, RCall("patch_scale", replicas))]
           /\ \E answer \in WorkloadCallAnswers :
               IF answer = ApiOk
               THEN /\ deployments' =
                           [deployments EXCEPT ![name].replicas = replicas]
                    /\ RestartGoes(r, IF nth = 1 THEN "scale_up"
                                      ELSE IF wait_for_readiness[r]
                                           THEN "read_deployment_status"
                                           ELSE "done")
               ELSE /\ RestartGoes(r, "raised")
                    /\ UNCHANGED deployments
    /\ UNCHANGED <<namespace, services, config_vars, launch_vars,
                   cleanup_vars, old_replicas, wait_for_readiness,
                   replicas_before, helper_vars,
                   observer_vars>>

\* read_namespaced_deployment_status and the while test, lines 319-320, 322.
restart_read_deployment_status(r, name) ==
    /\ rpc[r] = "read_deployment_status"
    /\ \E answer \in WorkloadCallAnswers :
        IF answer = ApiOk
        THEN /\ rcalls' = [rcalls EXCEPT ![r] = Append(@,
                    RCall("read_deployment_status", deployments[name].replicas))]
             /\ RestartGoes(r, IF NotReady(deployments[name])
                               THEN "sleep" ELSE "done")
        ELSE /\ RestartGoes(r, "raised")
             /\ UNCHANGED rcalls
    /\ UNCHANGED <<platform_vars, config_vars, launch_vars, cleanup_vars,
                   old_replicas, wait_for_readiness, replicas_before,
                   helper_vars,
                   observer_vars>>

\* time.sleep(1), line 321.
restart_sleep(r) ==
    /\ rpc[r] = "sleep"
    /\ SleepsIn(rcalls[r]) < MaxReadyPolls
    /\ rcalls' = [rcalls EXCEPT ![r] = Append(@, RCall("sleep", 0))]
    /\ RestartGoes(r, "read_deployment_status")
    /\ UNCHANGED <<platform_vars, config_vars, launch_vars, cleanup_vars,
                   old_replicas, wait_for_readiness, replicas_before,
                   helper_vars,
                   observer_vars>>

\* service_name of the restarts
RestartedService == "memory-server"

restart_session_service(r) ==
    \/ restart_read_replicas(r, RestartedService)
    \/ restart_patch_scale(r, RestartedService, 1)
    \/ restart_patch_scale(r, RestartedService, 2)
    \/ restart_read_deployment_status(r, RestartedService)
    \/ restart_sleep(r)

(***************************************************************************)
(* launch_noninteractive_session                                           *)
(***************************************************************************)
\* Variant: shutdown only after the yield, no finally clause.
AfterLaunch_NoFinally(outcome) == IF outcome = "returned" THEN "body" ELSE "exit"

\* Where the generator goes when launch has ended, lines 344-347: to the
\* yield on a return, to the finally clause on an exception.
AfterLaunch(outcome) == IF outcome = "returned" THEN "body" ELSE "finally"

\* launch has ended, line 345.
helper_launch_ended ==
    /\ hpc = "launch"
    /\ lpc = "done"
    /\ hpc' = AfterLaunch(launch_outcome)
    /\ UNCHANGED <<platform_vars, config_vars, launch_vars, cleanup_vars,
                   restart_vars, body_outcome, shutdown_calls,
                   observer_vars>>

\* The with-body ends, by returning or by raising into the generator.
helper_body_ends ==
    /\ hpc = "body"
    /\ \E how \in {"returned", "raised"} : body_outcome' = how
    /\ hpc' = "finally"
    /\ UNCHANGED <<platform_vars, config_vars, launch_vars, cleanup_vars,
                   restart_vars, shutdown_calls,
                   observer_vars>>

\* finally: shutdown(session_uuid), lines 347-348 and 242-244.
helper_shutdown ==
    /\ hpc = "finally"
    /\ shutdown_calls' = shutdown_calls + 1
    /\ hpc' = "shutdown"
    /\ cpc' = "delete_namespace"
    /\ wait_for_completion' = FALSE
    /\ UNCHANGED <<platform_vars, config_vars, launch_vars, delete_requests,
                   delete_answer, read_answer, cleanup_reads_ok,
                   cleanup_reads, cleanup_sleeps, cleanup_outcome,
                   cleanup_error, restart_vars, body_outcome,
                   observer_vars>>

\* shutdown has ended and the context manager is left.
helper_exit ==
    /\ hpc = "shutdown"
    /\ cpc = "done"
    /\ hpc' = "exit"
    /\ UNCHANGED <<platform_vars, config_vars, launch_vars, cleanup_vars,
                   restart_vars, body_outcome, shutdown_calls,
                   observer_vars>>

launch_noninteractive_session ==
    \/ helper_launch_ended
    \/ helper_body_ends
    \/ helper_shutdown
    \/ helper_exit

(***************************************************************************)
(* Specifications: one per public operation.                               *)
(***************************************************************************)
LaunchIdle ==
    /\ lpc = "idle"
    /\ ns_reads = 0
    /\ ns_sleeps = 0
    /\ ns_answer = NoAnswer
    /\ submit_idx = 1
    /\ ready_idx = 1
    /\ ready_sleeps = 0
    /\ ready_seen = {}
    /\ calls = <<>>
    /\ launch_outcome = "running"
    /\ launch_result = "unset"
    /\ launch_error = "none"
    /\ abort_seen = FALSE

CleanupIdle ==
    /\ cpc = "idle"
    /\ wait_for_completion = FALSE
    /\ delete_requests = 0
    /\ delete_answer = "none"
    /\ read_answer = "none"
    /\ cleanup_reads_ok = 0
    /\ cleanup_reads = 0
    /\ cleanup_sleeps = 0
    /\ cleanup_outcome = "running"
    /\ cleanup_error = "none"

RestartIdle ==
    /\ rpc = [r \in RestartCallers |-> "idle"]
    /\ old_replicas = [r \in RestartCallers |-> 0]
    /\ wait_for_readiness = [r \in RestartCallers |-> FALSE]
    /\ rcalls = [r \in RestartCallers |-> <<>>]
    /\ replicas_before = 0

HelperIdle ==
    /\ hpc = "idle"
    /\ body_outcome = "none"
    /\ shutdown_calls = 0

ConfigIdle ==
    /\ session_type = "noninteractive"
    /\ session_services = <<>>

\* launch is called; a namespace of that name may be there already.
LaunchCalled ==
    /\ namespace \in {"absent", "Active", "Terminating"}
    /\ deployments = NoDeployments
    /\ services = {}
    /\ session_services = <<>>
    /\ lpc = "create_namespace"
    /\ ns_reads = 0
    /\ ns_sleeps = 0
    /\ ns_answer = NoAnswer
    /\ submit_idx = 1
    /\ ready_idx = 1
    /\ ready_sleeps = 0
    /\ ready_seen = {}
    /\ calls = <<>>
    /\ launch_outcome = "running"
    /\ launch_result = "unset"
    /\ launch_error = "none"
    /\ abort_seen = FALSE

InitLaunch ==
    /\ session_type \in SessionType
    /\ LaunchCalled
    /\ CleanupIdle
    /\ RestartIdle
    /\ HelperIdle
    /\ recording = TRUE

NextLaunch == launch \/ Platform

SpecLaunch == InitLaunch /\ [][NextLaunch]_vars

\* launch is called and left to go round its readiness loop without limit.
InitLaunchUnrecorded ==
    /\ session_type \in SessionType
    /\ LaunchCalled
    /\ CleanupIdle
    /\ RestartIdle
    /\ HelperIdle
    /\ recording = FALSE

\* should_abort() answers True.
AbortAnswersTrue == launch_should_abort /\ abort_seen'

\* The thread running launch keeps running: none of its calls blocks for
\* ever, they answer or raise.
LaunchProgresses == WF_vars(launch)

\* Every deployment's replicas become available in the end, or else
\* should_abort, asked again and again, answers True in the end.
ReadyOrAbortInTheEnd == WF_vars(ReplicasConverge) \/ SF_vars(AbortAnswersTrue)

SpecLaunchFair ==
    /\ InitLaunchUnrecorded
    /\ [][NextLaunch]_vars
    /\ LaunchProgresses
    /\ ReadyOrAbortInTheEnd

\* cleanup_resources is called, whatever the namespace's state.
InitCleanup ==
    /\ namespace \in NamespaceStates
    /\ deployments = NoDeployments
    /\ services = {}
    /\ ConfigIdle
    /\ LaunchIdle
    /\ cpc = "delete_namespace"
    /\ wait_for_completion \in BOOLEAN
    /\ delete_requests = 0
    /\ delete_answer = "none"
    /\ read_answer = "none"
    /\ cleanup_reads_ok = 0
    /\ cleanup_reads = 0
    /\ cleanup_sleeps = 0
    /\ cleanup_outcome = "running"
    /\ cleanup_error = "none"
    /\ RestartIdle
    /\ HelperIdle
    /\ recording = TRUE

NextCleanup == cleanup_resources \/ NamespaceBecomesActive \/ NamespaceRemoved

SpecCleanup == InitCleanup /\ [][NextCleanup]_vars

\* restart_session_service is called by one caller or by two at once, on a
\* deployment of an active session.
InitRestart ==
    /\ namespace = "Active"
    /\ replicas_before \in 0..MaxReplicas
    /\ \E available \in 0..replicas_before :
        deployments =
            [name \in {RestartedService} |->
                Deployment(replicas_before, available)]
    /\ services = {}
    /\ ConfigIdle
    /\ LaunchIdle
    /\ CleanupIdle
    /\ rpc \in [RestartCallers -> {"idle", "read_replicas"}]
    /\ old_replicas = [r \in RestartCallers |-> 0]
    /\ wait_for_readiness \in [RestartCallers -> BOOLEAN]
    /\ rcalls = [r \in RestartCallers |-> <<>>]
    /\ HelperIdle
    /\ recording = TRUE

NextRestart ==
    \/ \E r \in RestartCallers : restart_session_service(r)
    \/ ReplicasConverge

SpecRestart == InitRestart /\ [][NextRestart]_vars

\* The context manager is entered: launch(..., NONINTERACTIVE, ...) runs.
InitHelper ==
    /\ session_type = "noninteractive"
    /\ LaunchCalled
    /\ CleanupIdle
    /\ RestartIdle
    /\ hpc = "launch"
    /\ body_outcome = "none"
    /\ shutdown_calls = 0
    /\ recording = TRUE

\* shutdown(session_uuid) leaves wait_for_completion False, so of
\* cleanup_resources only the deletion request runs.
NextHelper ==
    \/ launch_noninteractive_session
    \/ launch
    \/ cleanup_delete_namespace
    \/ Platform

SpecHelper == InitHelper /\ [][NextHelper]_vars

(***************************************************************************)
(* Properties                                                              *)
(***************************************************************************)
CountOf(log, op) == Cardinality({i \in 1..Len(log) : log[i].op = op})

IndexOf(log, call) == CHOOSE i \in 1..Len(log) : log[i] = call

Occurs(log, call) == \E i \in 1..Len(log) : log[i] = call

\* Every create call of the session has been issued and answered.
SubmittedAll == submit_idx > Len(SubmissionPlan(session_type, session_services))

OrchestWorkloads ==
    {"memory-server", "session-sidecar", "jupyter-eg", "jupyter-server"}

BothScopes == {"interactive", "noninteractive"}

\* C1 (as claimed): cleanup_resources/shutdown on a namespace that does not
\* exist, so that the deletion request is answered not-found, returns
\* without raising, whatever wait_for_completion is.
C1_TeardownOfAbsentNamespaceReturns ==
    (cpc = "done" /\ delete_answer = ApiNotFound) => cleanup_outcome = "returned"

\* C2: when the first should_abort() invocation answers true, launch
\* returns at once: that invocation is the last thing it did (no call, no
\* sleep after it), nothing it submitted has been deleted, and no
\* deployment needs to be ready.
C2_AbortOnFirstCheckReturnsAtOnce ==
    (abort_seen /\ CountOf(calls, "should_abort") = 1) =>
        /\ lpc = "done"
        /\ launch_outcome = "returned"
        /\ calls[Len(calls)].op = "should_abort"
        /\ ready_sleeps = 0
        /\ namespace = "Active"
        /\ \A i \in 1..Len(SubmissionPlan(session_type, session_services)) :
            LET call == SubmissionPlan(session_type, session_services)[i]
            IN  /\ calls[i] = call
                /\ IF call.op = "create_deployment"
                   THEN call.name \in DOMAIN deployments
                   ELSE call.name \in services

C2_Witness ==
    /\ abort_seen
    /\ CountOf(calls, "should_abort") = 1
    /\ lpc = "done"
    /\ \A name \in DOMAIN deployments : NotReady(deployments[name])

Wave(call) ==
    CASE call.op = "create_deployment" /\ call.name \in OrchestWorkloads -> 1
      [] call.op = "create_service" /\ call.name \in OrchestWorkloads -> 2
      [] call.op = "create_deployment" /\ call.name \notin OrchestWorkloads -> 3
      [] call.op = "create_service" /\ call.name \notin OrchestWorkloads -> 4
      [] OTHER -> 5

IsPatch(call) == call.op = "patch_scale"

RunsAlone(r) == \A other \in RestartCallers \ {r} : rpc[other] = "idle"

\* C5: restart_session_service reads the desired replica count N, then
\* issues exactly two scale updates, to 0 and then to N, whatever
\* wait_for_readiness is; run alone, it leaves the desired count at N.
C5_RestartScalesToZeroThenBack ==
    \A r \in RestartCallers :
        LET log == rcalls[r]
            patches == SelectSeq(log, IsPatch)
        IN  /\ Len(patches) <= 2
            /\ Len(log) >= 1 => log[1].op = "read_deployment_status"
            /\ Len(patches) >= 1 => log[2] = RCall("patch_scale", 0)
            /\ Len(patches) = 2 => log[3] = RCall("patch_scale", log[1].replicas)
            /\ rpc[r] \in {"read_deployment_status", "sleep", "done"}
                    => Len(patches) = 2
            /\ (RunsAlone(r) /\ Len(log) >= 1)
                    => log[1].replicas = replicas_before
            /\ (RunsAlone(r) /\ rpc[r] = "done")
                    => deployments[RestartedService].replicas = replicas_before

C5_Witness ==
    \E r \in RestartCallers :
        /\ RunsAlone(r)
        /\ rpc[r] = "done"
        /\ wait_for_readiness[r]
        /\ replicas_before = 1
        /\ SleepsIn(rcalls[r]) > 0

C7_Scenario ==
    /\ session_type = "interactive"
    /\ Len(session_services) = 1
    /\ session_services[1].name = "svc-a"
    /\ session_services[1].scope = BothScopes
    /\ SubmittedAll

\* C7 (as claimed): in the scenario launch submits exactly 5 deployments
\* and exactly 4 services, memory-server alone having no service.
C7_FiveDeploymentsFourServices ==
    C7_Scenario =>
        /\ CountOf(calls, "create_deployment") = 5
        /\ CountOf(calls, "create_service") = 4
        /\ DOMAIN deployments \ services = {"memory-server"}

\* C7 (amended): in the scenario launch submits exactly 5 deployments
\* (memory-server, session-sidecar, gateway, notebook server, svc-a) and
\* exactly 3 services (gateway, notebook server, svc-a): memory-server and
\* session-sidecar have no service.
C7_FiveDeploymentsThreeServices ==
    C7_Scenario =>
        /\ CountOf(calls, "create_deployment") = 5
        /\ DOMAIN deployments = {"memory-server", "session-sidecar",
                                 "jupyter-eg", "jupyter-server", "svc-a"}
        /\ CountOf(calls, "create_service") = 3
        /\ services = {"jupyter-eg", "jupyter-server", "svc-a"}
        /\ DOMAIN deployments \ services = {"memory-server", "session-sidecar"}

C7_Witness == C7_Scenario /\ lpc = "done" /\ launch_outcome = "returned"

\* C8: launch submits a declared user service, as a deployment and a
\* service, exactly when its scope contains the session kind, and submits
\* the user workloads in the order the config declares them.
C8_UserServicesByScopeInDeclaredOrder ==
    SubmittedAll =>
        \A i \in 1..Len(session_services) :
            LET s == session_services[i]
            IN  /\ session_type \in s.scope =>
                    /\ s.name \in DOMAIN deployments
                    /\ s.name \in services
                /\ session_type \notin s.scope =>
                    /\ s.name \notin DOMAIN deployments
                    /\ s.name \notin services
                    /\ ~Occurs(calls, Call("create_deployment", s.name))
                    /\ ~Occurs(calls, Call("create_service", s.name))
                /\ \A j \in 1..Len(session_services) :
                    LET t == session_services[j]
                    IN  (i < j /\ session_type \in s.scope
                               /\ session_type \in t.scope) =>
                            /\ IndexOf(calls, Call("create_deployment", s.name))
                               < IndexOf(calls, Call("create_deployment", t.name))
                            /\ IndexOf(calls, Call("create_service", s.name))
                               < IndexOf(calls, Call("create_service", t.name))

C8_Witness ==
    /\ SubmittedAll
    /\ session_type = "interactive"
    /\ Len(session_services) = 2
    /\ session_services[1].scope = {"noninteractive"}
    /\ session_services[2].scope = BothScopes
    /\ session_services[1].name \notin DOMAIN deployments
    /\ session_services[2].name \in services

\* C9: launch_noninteractive_session calls shutdown exactly once on every
\* way out: not before launch and the body have ended, and once by the
\* time the context manager is left, whether launch raised, launch was
\* interrupted, the body raised or the body returned.
C9_ShutdownOnceOnEveryExit ==
    /\ hpc \in {"launch", "body", "finally"} => shutdown_calls = 0
    /\ hpc \in {"shutdown", "exit"} =>
        /\ shutdown_calls = 1
        /\ delete_requests = (IF cpc = "delete_namespace" THEN 0 ELSE 1)
    /\ hpc = "exit" =>
        /\ lpc = "done"
        /\ cpc = "done"
        /\ launch_outcome = "returned" => body_outcome \in {"returned", "raised"}
        /\ launch_outcome = "raised" => body_outcome = "none"

C9_Witness ==
    /\ hpc = "exit"
    /\ launch_outcome = "raised"
    /\ calls # <<>>
    /\ shutdown_calls = 1

\* C10: with wait_for_completion, cleanup_resources issues one deletion
\* request and then at most 1000 status reads; it returns at the first
\* read answered not-found, re-raises any other read error at once, and
\* raises SessionCleanupFailedError exactly when all 1000 reads succeeded.
C10_WaitingCleanupPollsAtMost1000Times ==
    wait_for_completion =>
        /\ delete_requests = (IF cpc = "delete_namespace" THEN 0 ELSE 1)
        /\ cleanup_reads <= 1000
        /\ cleanup_reads > 0 => delete_answer = ApiOk
        /\ cleanup_reads_ok =
                (IF read_answer \in {"none", ApiOk}
                 THEN cleanup_reads ELSE cleanup_reads - 1)
        /\ read_answer = ApiNotFound =>
                cpc = "done" /\ cleanup_outcome = "returned"
        /\ read_answer = ApiError =>
                /\ cpc = "done"
                /\ cleanup_outcome = "raised"
                /\ cleanup_error = ApiError
        /\ cleanup_outcome = "returned" => read_answer = ApiNotFound
        /\ cpc = "done" =>
                (cleanup_error = "SessionCleanupFailedError"
                    <=> cleanup_reads_ok = 1000)
        /\ cleanup_error = "SessionCleanupFailedError" =>
                cpc = "done" /\ cleanup_outcome = "raised"

C10_Witness ==
    /\ wait_for_completion
    /\ cpc = "done"
    /\ cleanup_error = "SessionCleanupFailedError"
    /\ cleanup_reads = 1000

ReportsActive(answer) == answer.status = ApiOk /\ answer.phase = "Active"

\* C11: when the k-th status read of namespace provisioning is the first to
\* report phase Active (1 <= k <= 120), the reads before it having reported
\* another phase or not-found, provisioning succeeds after exactly k reads
\* and k-1 sleeps of 0.5 (1.0 for k = 3); the loop is left on the Active
\* read, so that neither a read nor a sleep follows it.
C11_ActiveOnKthReadEndsProvisioning ==
    /\ lpc = "read_namespace_status" =>
            /\ ns_reads \in 0..(NamespacePollCeiling - 1)
            /\ ns_sleeps = ns_reads
            /\ ~ReportsActive(ns_answer)
    /\ lpc = "namespace_sleep" =>
            /\ ns_reads \in 1..NamespacePollCeiling
            /\ ns_sleeps = ns_reads - 1
            /\ ~ReportsActive(ns_answer)
            /\ ns_answer.status \in {ApiOk, ApiNotFound}
    /\ lpc = "compile" =>
            /\ ReportsActive(ns_answer)
            /\ ns_reads \in 1..NamespacePollCeiling
            /\ ns_sleeps = ns_reads - 1
            /\ ProvisioningSleptMs = (ns_reads - 1) * 500
            /\ ns_reads = 3 => ProvisioningSleptMs = 1000
    /\ ReportsActive(ns_answer) =>
            lpc \notin {"read_namespace_status", "namespace_sleep"}

C11_Witness ==
    /\ lpc = "compile"
    /\ ReportsActive(ns_answer)
    /\ ns_reads = 3
    /\ ns_sleeps = 2

\* launch has raised out of _create_session_k8s_namespace (line 145): before
\* the manifests were built and before any submission was attempted.
ProvisioningFailed ==
    /\ lpc = "done"
    /\ launch_outcome = "raised"
    /\ launch_error # "UnresolvedEnvironment"
    /\ calls = <<>>

ReadFailed == ns_answer.status \notin {"none", ApiOk, ApiNotFound}

TimedOut ==
    /\ ns_reads = 120
    /\ ~ReportsActive(ns_answer)
    /\ launch_error = "Could not create namespace"

CreationRejected ==
    /\ ns_reads = 0
    /\ ns_answer = NoAnswer
    /\ launch_error \in {ApiConflict, ApiError}

NothingSubmitted ==
    /\ submit_idx = 1
    /\ deployments = NoDeployments
    /\ services = {}

\* C12 as stated: provisioning fails fatally exactly when a status read
\* fails with an error other than not-found (at once, no further read) or
\* when 120 reads have completed without phase Active; launch then raises
\* and has submitted no deployment and no service.
C12_FailsExactlyOnReadErrorOrTimeout ==
    /\ ProvisioningFailed => (ReadFailed \/ TimedOut)
    /\ ReadFailed =>
            /\ ProvisioningFailed
            /\ launch_error = ns_answer.status
            /\ ns_sleeps = ns_reads - 1
    /\ ns_sleeps = 120 => (ProvisioningFailed /\ TimedOut)
    /\ ProvisioningFailed => NothingSubmitted

\* C12, amended: provisioning fails fatally exactly when the creation
\* request itself is rejected (a conflict with an existing namespace, or any
\* other error, before any read), when a status read fails with an error
\* other than not-found (at once, no further read), or when 120 reads have
\* completed without phase Active; in all three cases launch raises and has
\* submitted no deployment and no service.
C12_FailsExactlyOnRejectionReadErrorOrTimeout ==
    /\ ProvisioningFailed => (CreationRejected \/ ReadFailed \/ TimedOut)
    /\ ReadFailed =>
            /\ ProvisioningFailed
            /\ launch_error = ns_answer.status
            /\ ns_sleeps = ns_reads - 1
    /\ ns_sleeps = 120 => (ProvisioningFailed /\ TimedOut)
    /\ (lpc \in {"read_namespace_status", "namespace_sleep"} /\ ns_reads < 120) =>
            launch_outcome = "running"
    /\ ProvisioningFailed => NothingSubmitted

C12_Witness ==
    /\ ProvisioningFailed
    /\ TimedOut
    /\ ns_sleeps = 120
    /\ NothingSubmitted

IsCreate(call) == call.op \in {"create_deployment", "create_service"}

\* launch has raised out of a create call of lines 196-225.
SubmissionFailed ==
    /\ lpc = "done"
    /\ launch_outcome = "raised"
    /\ calls # <<>>
    /\ IsCreate(calls[Len(calls)])

\* The names of the kind `op` among the first n calls of the plan.
SubmittedNames(plan, n, op) == {plan[i].name : i \in {j \in 1..n : plan[j].op = op}}

\* C13: when a deployment or service submission of launch fails, launch
\* raises at once: the failed call is the last call it made (no further
\* submission, no readiness read, no should_abort), and nothing is deleted:
\* the namespace stays, and exactly the resources submitted before the
\* failure are in place.
C13_SubmissionFailureRaisesWithoutRollback ==
    SubmissionFailed =>
        LET plan == SubmissionPlan(session_type, session_services)
        IN  /\ submit_idx \in 1..Len(plan)
            /\ calls = SubSeq(plan, 1, submit_idx)
            /\ launch_error = ApiError
            /\ launch_result = "unset"
            /\ ready_idx = 1
            /\ ready_sleeps = 0
            /\ namespace = "Active"
            /\ delete_requests = 0
            /\ DOMAIN deployments =
                    SubmittedNames(plan, submit_idx - 1, "create_deployment")
            /\ services = SubmittedNames(plan, submit_idx - 1, "create_service")

C13_Witness ==
    /\ SubmissionFailed
    /\ submit_idx = 4
    /\ Cardinality(DOMAIN deployments) = 3
    /\ namespace = "Active"

\* launch has raised while building the manifests (lines 147-192).
CompileFailed ==
    /\ lpc = "done"
    /\ launch_outcome = "raised"
    /\ launch_error = "UnresolvedEnvironment"

\* C14: when a workload of the session does not compile (for instance the
\* last declared user service names an environment image that does not
\* resolve), launch raises before it submits anything: whenever a create
\* call has been made, the whole workload set had compiled.
C14_CompileFailureSubmitsNothing ==
    /\ (session_services # <<>>
            /\ ~ManifestsCompile(session_type, session_services)) =>
            /\ CompileFailed
            /\ NothingSubmitted
            /\ calls = <<>>
            /\ namespace = "Active"
    /\ CompileFailed => (calls = <<>> /\ NothingSubmitted)
    /\ calls # <<>> => ManifestsCompile(session_type, session_services)

C14_Witness ==
    /\ CompileFailed
    /\ Len(session_services) = 2
    /\ InScope(session_type, session_services[1])
    /\ ImageResolves(session_services[1].image)
    /\ InScope(session_type, session_services[2])
    /\ ~ImageResolves(session_services[2].image)
    /\ calls = <<>>
    /\ NothingSubmitted

\* launch has returned without having been interrupted by should_abort.
ReadyReturn ==
    /\ lpc = "done"
    /\ launch_outcome = "returned"
    /\ ~abort_seen

\* A status read of the deployment was made after the last submission.
ReadAfterSubmissions(name) ==
    \E i \in 1..Len(calls) :
        /\ i > Len(SubmissionPlan(session_type, session_services))
        /\ calls[i] = Call("read_deployment_status", name)

\* C15: launch returns its ready outcome only if, for every deployment it
\* submitted, a status read made after all submissions reported available
\* replicas equal to desired replicas; a deployment is never taken for
\* ready without such a read, so a successful submission alone does not
\* count as readiness.
C15_ReadyOnlyAfterReadsShowReady ==
    /\ \A name \in ready_seen : SubmittedAll /\ ReadAfterSubmissions(name)
    /\ ReadyReturn =>
            /\ SubmittedAll
            /\ DOMAIN deployments # {}
            /\ DOMAIN deployments =
                    SubmittedNames(SubmissionPlan(session_type, session_services),
                                   submit_idx - 1, "create_deployment")
            /\ \A name \in DOMAIN deployments :
                    name \in ready_seen /\ ReadAfterSubmissions(name)

C15_Witness ==
    /\ ReadyReturn
    /\ ready_sleeps > 0
    /\ Cardinality(DOMAIN deployments) >= 3
    /\ ready_seen = DOMAIN deployments

Provisioning ==
    lpc \in {"create_namespace", "read_namespace_status", "namespace_sleep",
             "compile"}

\* C16: should_abort is sampled in the readiness phase only: not while the
\* namespace is provisioned, and not before every submission has been
\* made, each sample following a status read of a deployment. A
\* should_abort that always answers true therefore stops launch only once
\* the namespace is there and the whole workload set is submitted.
C16_AbortSampledOnlyInReadinessPhase ==
    LET plan == SubmissionPlan(session_type, session_services)
    IN  /\ Provisioning => (calls = <<>> /\ ~abort_seen)
        /\ lpc \in {"should_abort", "sleep"} => SubmittedAll
        /\ \A i \in 1..Len(calls) :
                calls[i].op = "should_abort" =>
                    /\ SubmittedAll
                    /\ i > Len(plan) + 1
                    /\ SubSeq(calls, 1, Len(plan)) = plan
                    /\ calls[i - 1].op = "read_deployment_status"
        /\ abort_seen =>
                /\ SubmittedAll
                /\ namespace = "Active"
                /\ DOMAIN deployments =
                        SubmittedNames(plan, Len(plan), "create_deployment")
                /\ services = SubmittedNames(plan, Len(plan), "create_service")

C16_Witness ==
    /\ abort_seen
    /\ lpc = "done"
    /\ CountOf(calls, "should_abort") = 1
    /\ CountOf(calls, "sleep") = 0
    /\ Len(session_services) = 2
    /\ CountOf(calls, "create_deployment") = Cardinality(DOMAIN deployments)
    /\ CountOf(calls, "create_service") = Cardinality(services)
    /\ Cardinality(services) >= 2

\* C17: cleanup_resources with wait_for_completion false issues exactly one
\* deletion request and makes no status read and no sleep; once the request
\* is accepted it returns at once, so that it may return while the namespace
\* still exists.
C17_NoWaitCleanupDeletesOnceAndReturns ==
    ~wait_for_completion =>
        /\ cleanup_reads = 0
        /\ cleanup_reads_ok = 0
        /\ cleanup_sleeps = 0
        /\ read_answer = "none"
        /\ cpc \in {"delete_namespace", "done"}
        /\ delete_requests = (IF cpc = "done" THEN 1 ELSE 0)
        /\ (cpc = "done" /\ delete_answer = ApiOk) =>
                /\ cleanup_outcome = "returned"
                /\ namespace \in {"Terminating", "absent"}
        /\ cleanup_outcome = "returned" => delete_answer = ApiOk

C17_Witness ==
    /\ ~wait_for_completion
    /\ cpc = "done"
    /\ cleanup_outcome = "returned"
    /\ delete_requests = 1
    /\ cleanup_reads = 0
    /\ cleanup_sleeps = 0
    /\ namespace = "Terminating"

BothRestartsFinished == \A r \in RestartCallers : rpc[r] = "done"

\* C18: for two restart_session_service calls running concurrently on the
\* same workload with desired replica count N > 0, whatever the
\* interleaving of their replica reads and scale updates, the workload's
\* desired replica count is N again once both calls have finished.
C18_ConcurrentRestartsRestoreReplicas ==
    (replicas_before > 0 /\ BothRestartsFinished) =>
        deployments[RestartedService].replicas = replicas_before

\* C19: when launch inside launch_noninteractive_session fails because the
\* namespace of that identity exists already (a creation conflict, the
\* namespace being Active or still Terminating), the helper issues no
\* deletion request for that namespace.
C19_ConflictLeavesExistingNamespaceAlone ==
    (launch_outcome = "raised" /\ launch_error = ApiConflict) =>
        /\ delete_requests = 0
        /\ delete_answer = "none"

\* C20: once provisioning and every submission have succeeded, launch ends
\* in time provided every deployment is reported ready in the end or
\* should_abort answers true in the end; the readiness loop has no ceiling
\* of its own, so launch leaves it only on readiness of all deployments, on
\* an abort or on an error of a status read: with a deployment that never
\* becomes ready and a should_abort that never answers true, it never
\* returns.
C20_ReturnsIffReadyOrAbortInTheEnd ==
    /\ (SubmittedAll /\ lpc # "done") ~> (lpc = "done")
    /\ [](launch_outcome = "returned" =>
            (abort_seen \/ ready_seen = DOMAIN deployments))
    /\ []((SubmittedAll /\ launch_outcome = "raised") => launch_error = ApiError)

C20_Witness ==
    /\ ~recording
    /\ lpc = "done"
    /\ launch_outcome = "returned"
    /\ ~abort_seen
    /\ Cardinality(ready_seen) >= 3

====
